---------------------------- MODULE Spec2Model ----------------------------
(***************************************************************************)
(* The on-the-fly (OTF) learning engine of flare: OTF.run() and the        *)
(* methods it calls (src/otf_engine/otf.py), the integrator functions of   *)
(* src/flare/md.py, and parse_dft_input of                                 *)
(* src/flare/dft_interface/pyscf_util.py.                                  *)
(*                                                                         *)
(* Numbers.  Uncertainties (stds) are counted in units of 0.05, so the     *)
(* literal .1 of is_std_in_bound is 2.  Variances are counted in units of  *)
(* 0.0025, so sqrt(|var|) of a variance v is the integer root of |v|.      *)
(* Positions, forces, masses and dt are integers chosen so that            *)
(* dt^2 * force / mass is exact.  A float that is not a number is NaN;     *)
(* every comparison with it is false, as in IEEE 754.                      *)
(***************************************************************************)
EXTENDS Integers, Sequences, FiniteSets

VARIABLES
    Nsteps,           \* self.Nsteps (number_of_steps)
    punchout_d,       \* self.punchout_d: None, 0 or a positive distance
    nat,              \* self.structure.nat
    dt,               \* self.dt
    curr_step,        \* self.curr_step
    positions,        \* self.structure.positions
    prev_positions,   \* self.structure.prev_positions
    forces,           \* self.structure.forces
    stds,             \* self.structure.stds
    train_structure,  \* self.train_structure
    punchout_target,  \* run_and_train's punchout_target
    gp_db,            \* self.gp: the training set (its size and last entry)
                      \* and the size it had when gp.train last ran
    log,              \* otf_run.out: the entries appended, in order
    last_config,      \* the atom rows of the step record written last
    std_in_bound,     \* run()'s local std_in_bound
    problem_atoms,    \* run()'s local problem_atoms
    pc,               \* where run() is
    n_oracle,         \* run_espresso calls made
    n_update,         \* gp.update_db calls made
    n_train,          \* gp.train calls made
    n_predict,        \* predict_on_structure calls made
    n_correct,        \* passes through the not-in-bound branch of run()
    n_integrate,      \* passes through the in-bound tail of run()
    all_out,          \* every prediction so far had an entry >= the threshold
    all_calm,         \* every prediction so far was zero force with std 0
    qe_forces,        \* run_and_train's local forces: run_espresso's result
    new_pos,          \* what md.update_positions returned
    kinetics,         \* what md.calculate_temperature returned
    template,         \* the lines of the file given to parse_dft_input
    assertions,       \* whether the interpreter executes assert statements
    parse_result,     \* how the call of parse_dft_input ended
    n_moves           \* OTF.update_positions calls made outside run()

vars == <<Nsteps, punchout_d, nat, dt, curr_step, positions, prev_positions,
          forces, stds, train_structure, punchout_target, gp_db, log,
          last_config,
          std_in_bound, problem_atoms, pc,
          n_oracle, n_update, n_train, n_predict, n_correct, n_integrate,
          all_out, all_calm, qe_forces, new_pos, kinetics,
          template, assertions, parse_result, n_moves>>

config == <<Nsteps, punchout_d, nat, dt>>
structure == <<positions, prev_positions, forces, stds>>
locals == <<std_in_bound, problem_atoms>>
training == <<train_structure, punchout_target, gp_db, qe_forces>>
md == <<new_pos, kinetics>>
parse == <<template, assertions, parse_result>>
aside == <<md, parse, n_moves>>
counters == <<n_oracle, n_update, n_train, n_predict, n_correct, n_integrate>>

---------------------------------------------------------------------------
(* Bounds of the model. *)

MaxNat == 1           \* atoms of the structure a run is made on: 1..MaxNat
MaxAtoms == 2         \* atoms of the arrays is_std_in_bound is applied to
MaxSteps == 2         \* number_of_steps: 0..MaxSteps
MaxCorrections == 2   \* corrections explored in one run

---------------------------------------------------------------------------
(* Values. *)

None == -1            \* Python's None (a target atom, punchout_d)
NaN == -1             \* a float that is not a number
Threshold == 2        \* the literal .1 of is_std_in_bound
Dim == 3              \* Cartesian components

Atoms(n) == 0 .. (n - 1)
Comps == 1 .. Dim

Zero3 == <<0, 0, 0>>

\* The species of atom n and the masses of the species (parse_qe_input).
species(n) == IF n % 2 = 0 THEN "A" ELSE "B"
mass_dict(sp) == IF sp = "A" THEN 2 ELSE 1

\* The time steps the runs are made with, in units of 1e-7: write_config
\* rounds the time to six decimals, that is to ten of these units.
DtVals == {4}

\* The initial positions read from the input, atom n at (n, 0, 0), and the
\* prev_pos_init values a caller passes: at rest, or moving along x.
InitPositions(n) == [a \in Atoms(n) |-> <<a, 0, 0>>]
PrevPosInits(n) == { InitPositions(n),
                     [a \in Atoms(n) |-> <<a - 1, 0, 0>>] }

\* What gp.predict returns for the three components of one atom, a force
\* mean and a variance each: zero force with std 0; a NaN variance beside
\* small ones; one std exactly at the threshold beside a negative variance;
\* a NaN variance beside a large one.
GPOut ==
    { [force |-> <<0, 0, 0>>,  var |-> <<0, 0, 0>>],
      [force |-> <<2, 0, -2>>, var |-> <<NaN, 1, 0>>],
      [force |-> <<0, 2, 0>>,  var |-> <<-1, 4, 0>>],
      [force |-> <<2, 0, -2>>, var |-> <<9, NaN, 0>>] }

\* What the calls before a failing gp.predict call returned.
GPOutBeforeFail == { [force |-> <<2, 0, -2>>, var |-> <<9, NaN, 0>>] }

\* The entries of the arrays is_std_in_bound is applied to on its own.
StdVals == {1, 2, 3, NaN}

\* What run_espresso returns: one of two force fields.
QEForces == {"qe_a", "qe_b"}

---------------------------------------------------------------------------
(* numpy on floats with NaN. *)

IsNaN(x) == x = NaN

\* x >= y and x < y on floats: false when either is NaN.
GE(x, y) == ~IsNaN(x) /\ ~IsNaN(y) /\ x >= y
LT(x, y) == ~IsNaN(x) /\ ~IsNaN(y) /\ x < y

MaxOf(S) == CHOOSE m \in S : \A x \in S : x <= m

\* np.absolute and np.sqrt: NaN stays NaN.
Abs(x) == IF IsNaN(x) THEN NaN ELSE IF x < 0 THEN 0 - x ELSE x
Sqrt(x) == IF IsNaN(x) THEN NaN
           ELSE CHOOSE r \in 0 .. x : r * r <= x /\ (r + 1) * (r + 1) > x

\* np.max of one atom's row: NaN as soon as one component is NaN.
np_max(std) ==
    IF \E j \in Comps : IsNaN(std[j]) THEN NaN
    ELSE MaxOf({std[j] : j \in Comps})

\* np.nanmax of the whole array: the largest entry that is a number, and NaN
\* when no entry is one.
np_nanmax(s) ==
    LET nums == {s[a][j] : a \in DOMAIN s, j \in Comps} \ {NaN}
    IN  IF nums = {} THEN NaN ELSE MaxOf(nums)

---------------------------------------------------------------------------
(* OTF.is_std_in_bound *)

\* The loop of lines 222-224 over atoms 0 .. i-1.
RECURSIVE problem_scan(_, _)
problem_scan(s, i) ==
    IF i = 0 THEN <<>>
    ELSE LET rest == problem_scan(s, i - 1)
         IN  IF GE(np_max(s[i - 1]), Threshold)
             THEN Append(rest, i - 1)
             ELSE rest

\* Mutant of is_std_in_bound: `> .1` for `>= .1` in line 220.
is_std_in_bound_strict(s) ==
    IF ~IsNaN(np_nanmax(s)) /\ np_nanmax(s) > Threshold
    THEN <<FALSE, problem_scan(s, Cardinality(DOMAIN s))>>
    ELSE <<TRUE, <<>>>>

is_std_in_bound(s) ==
    IF GE(np_nanmax(s), Threshold)
    THEN <<FALSE, problem_scan(s, Cardinality(DOMAIN s))>>
    ELSE <<TRUE, <<>>>>

---------------------------------------------------------------------------
(* The output file. *)

Entry(type) == [type |-> type, frame |-> 0, time |-> 0, by |-> "none"]

\* np.round(t, 6) of a time t >= 0 counted in units of 1e-7: the nearest
\* multiple of ten units, a tie going to the even one.
np_round6(t) ==
    LET q == t \div 10
        r == t % 10
    IN  IF r < 5 THEN 10 * q
        ELSE IF r > 5 THEN 10 * (q + 1)
        ELSE IF q % 2 = 0 THEN 10 * q ELSE 10 * (q + 1)

\* Mutant of ConfigEntry: the header is written with the counter of the
\* next step.
ConfigEntryNextStep(by) ==
    [type |-> "config", frame |-> curr_step + 1,
     time |-> np_round6(dt * (curr_step + 1)), by |-> by]

\* write_config: a frame header with the counter and the time, then one row
\* per atom.  "by" is not in the file: it names the branch that wrote it.
ConfigEntry(by) ==
    [type |-> "config", frame |-> curr_step,
     time |-> np_round6(dt * curr_step), by |-> by]
ConfigRows ==
    [positions |-> positions, forces |-> forces, stds |-> stds]

NoRows == [positions |-> <<>>, forces |-> <<>>, stds |-> <<>>]

---------------------------------------------------------------------------
(* The initial state: OTF.__init__ *)

\* No call of md.py or of pyscf_util.py was made.
NoKinetics == [KE2 |-> 0, dof |-> 0, velocities |-> <<>>]
NothingAside ==
    /\ new_pos = <<>>
    /\ kinetics = NoKinetics
    /\ template = <<>>
    /\ assertions = TRUE
    /\ parse_result = "not called"

NoStructure == [kind |-> "None", target |-> None]
EmptyDb ==
    [size |-> 0, structure |-> NoStructure, forces |-> "none", trained |-> 0]

Init ==
    /\ Nsteps \in 0 .. MaxSteps
    /\ punchout_d \in {None, 0, 1}
    /\ nat \in 1 .. MaxNat
    /\ dt \in DtVals
    /\ curr_step = 0
    /\ positions = InitPositions(nat)
    /\ prev_positions \in PrevPosInits(nat)
    /\ forces = [a \in Atoms(nat) |-> Zero3]
    /\ stds = [a \in Atoms(nat) |-> Zero3]
    /\ train_structure = NoStructure
    /\ punchout_target = None
    /\ gp_db = EmptyDb
    /\ log = <<Entry("header")>>
    /\ last_config = NoRows
    /\ std_in_bound = FALSE
    /\ problem_atoms = <<>>
    /\ pc = "bootstrap"
    /\ n_oracle = 0 /\ n_update = 0 /\ n_train = 0
    /\ n_predict = 0 /\ n_correct = 0 /\ n_integrate = 0
    /\ all_out = TRUE
    /\ all_calm = TRUE
    /\ qe_forces = "none"
    /\ NothingAside
    /\ n_moves = 0

---------------------------------------------------------------------------
(* OTF.run_and_train, up to the call of run_espresso *)

\* `if self.punchout_d:` in run(): None and 0 are both false.
Truthy(d) == d # None /\ d # 0

\* Mutant of IsNone: `if not self.punchout_d:` for `is None` in line 112.
IsFalsy(d) == d = None \/ d = 0

\* `if self.punchout_d is None:` in run_and_train().
IsNone(d) == d = None

\* Lines 116-117: the first call draws the target among all atoms.
PunchoutTargets(given) ==
    IF train_structure = NoStructure THEN Atoms(nat) ELSE {given}

\* Mutant of run_and_train: 'Done.' is written before run_espresso is
\* called.
run_and_train_done_early(given, lg) ==
    /\ log' = lg \o <<Entry("calling_qe"), Entry("done")>>
    /\ IF IsNone(punchout_d)
       THEN /\ train_structure' = [kind |-> "full", target |-> None]
            /\ punchout_target' = given
       ELSE \E t \in PunchoutTargets(given) :
               /\ punchout_target' = t
               /\ train_structure' = [kind |-> "punchout", target |-> t]
    /\ n_oracle' = n_oracle + 1
    /\ pc' = "oracle"

\* Lines 109-121 when every call returns: announce the call, choose the
\* structure, hand it to run_espresso.  `lg` is the output file as the
\* caller left it.
run_and_train(given, lg) ==
    /\ log' = Append(lg, Entry("calling_qe"))
    /\ IF IsNone(punchout_d)
       THEN /\ train_structure' = [kind |-> "full", target |-> None]
            /\ punchout_target' = given
       ELSE \E t \in PunchoutTargets(given) :
               /\ punchout_target' = t
               /\ train_structure' = [kind |-> "punchout", target |-> t]
    /\ n_oracle' = n_oracle + 1
    /\ pc' = "oracle"

\* Lines 109-119 when punchout raises.  Only a target of None, which is no
\* atom index, is taken to make it raise.
run_and_train_raise(given, lg) ==
    /\ ~IsNone(punchout_d)
    /\ PunchoutTargets(given) = {None}
    /\ log' = Append(lg, Entry("calling_qe"))
    /\ punchout_target' = None
    /\ pc' = "aborted"
    /\ UNCHANGED <<train_structure, n_oracle>>

\* run(), line 66: the first training point.
Bootstrap ==
    /\ pc = "bootstrap"
    /\ run_and_train(None, log)
    /\ UNCHANGED <<config, curr_step, structure, gp_db, qe_forces,
                   last_config, locals, n_update, n_train, n_predict, n_correct, n_integrate,
                   all_out, all_calm,
                   aside>>

---------------------------------------------------------------------------
(* OTF.run_and_train, from the return of run_espresso *)

\* Lines 139-140: gp.update_db(self.train_structure, forces), gp.train().
UpdateAndTrain(f) ==
    [size |-> gp_db.size + 1,
     structure |-> train_structure,
     forces |-> f,
     trained |-> gp_db.size + 1]

\* Mutant of OracleReturn: the training set is updated but gp.train() is
\* not called.
OracleReturnNoRetrain ==
    /\ pc = "oracle"
    /\ \E f \in QEForces :
          /\ qe_forces' = f
          /\ gp_db' = [UpdateAndTrain(f) EXCEPT !.trained = gp_db.trained]
    /\ log' = log \o <<Entry("done"), Entry("qe_results"),
                       Entry("updating"), Entry("hyperparameters")>>
    /\ n_update' = n_update + 1
    /\ pc' = "loop"
    /\ UNCHANGED <<config, curr_step, structure, train_structure,
                   punchout_target, last_config, locals, n_oracle, n_train,
                   n_predict, n_correct, n_integrate, all_out, all_calm,
                   aside>>

\* Lines 123-148: log the result, update the training set, train, log the
\* hyperparameters.
OracleReturn ==
    /\ pc = "oracle"
    /\ \E f \in QEForces :
          /\ qe_forces' = f
          /\ gp_db' = UpdateAndTrain(f)
    /\ log' = log \o <<Entry("done"), Entry("qe_results"),
                       Entry("updating"), Entry("hyperparameters")>>
    /\ n_update' = n_update + 1
    /\ n_train' = n_train + 1
    /\ pc' = "loop"
    /\ UNCHANGED <<config, curr_step, structure, train_structure,
                   punchout_target, last_config, locals, n_oracle,
                   n_predict, n_correct, n_integrate, all_out, all_calm,
                   aside>>

\* Mutant of OracleFail: the exception is swallowed and the loop goes on
\* with the surrogate as it is.
OracleFailSwallowed ==
    /\ pc = "oracle"
    /\ pc' = "loop"
    /\ UNCHANGED <<config, curr_step, structure, training, log,
                   last_config, locals, counters, all_out, all_calm,
                   aside>>

\* run_espresso raises: nothing of run() catches it.
OracleFail ==
    /\ pc = "oracle"
    /\ pc' = "aborted"
    /\ UNCHANGED <<config, curr_step, structure, training, log,
                   last_config, locals, counters, all_out, all_calm,
                   aside>>

---------------------------------------------------------------------------
(* OTF.predict_on_structure *)

\* The arrays after the first k calls of gp.predict returned `out`: the
\* calls go atom by atom, component by component.
PredictedForces(out, k) ==
    [a \in Atoms(nat) |->
        [j \in Comps |-> IF Dim * a + (j - 1) < k
                         THEN out[a].force[j] ELSE forces[a][j]]]
PredictedStds(out, k) ==
    [a \in Atoms(nat) |->
        [j \in Comps |-> IF Dim * a + (j - 1) < k
                         THEN Sqrt(Abs(out[a].var[j])) ELSE stds[a][j]]]

\* Some entry is a number at or above the threshold.
SomeEntryOut(s) ==
    \E a \in DOMAIN s : \E j \in Comps : GE(s[a][j], Threshold)

\* Every force is zero and every std is 0.
Calm(f, s) ==
    \A a \in DOMAIN s : \A j \in Comps : f[a][j] = 0 /\ s[a][j] = 0

\* Once MaxCorrections corrections were made, only the predictions that the
\* check accepts are explored.
Explored(out) ==
    n_correct < MaxCorrections
        \/ is_std_in_bound(PredictedStds(out, Dim * nat))[1]

\* Mutant of LoopCondition: `<=` for `<` in line 69.
LoopConditionInclusive == curr_step <= Nsteps

\* Line 69: the loop condition.
LoopCondition == curr_step < Nsteps

Predict ==
    /\ pc = "loop"
    /\ LoopCondition
    /\ \E out \in [Atoms(nat) -> GPOut] :
          /\ Explored(out)
          /\ forces' = PredictedForces(out, Dim * nat)
          /\ stds' = PredictedStds(out, Dim * nat)
    /\ all_out' = (all_out /\ SomeEntryOut(stds'))
    /\ all_calm' = (all_calm /\ Calm(forces', stds'))
    /\ n_predict' = n_predict + 1
    /\ pc' = "evaluate"
    /\ UNCHANGED <<config, curr_step, positions, prev_positions, training,
                   log, last_config, locals,
                   n_oracle, n_update, n_train, n_correct, n_integrate,
                   aside>>

\* gp.predict raises at call k: the entries written before it stay.
PredictFail ==
    /\ pc = "loop"
    /\ LoopCondition
    /\ \E out \in [Atoms(nat) -> GPOutBeforeFail],
          k \in 0 .. (Dim * nat - 1) :
          /\ forces' = PredictedForces(out, k)
          /\ stds' = PredictedStds(out, k)
    /\ n_predict' = n_predict + 1
    /\ pc' = "aborted"
    /\ UNCHANGED <<config, curr_step, positions, prev_positions, training,
                   log, last_config, locals,
                   n_oracle, n_update, n_train, n_correct, n_integrate,
                   all_out, all_calm,
                   aside>>

---------------------------------------------------------------------------
(* run(), line 73 *)

Evaluate ==
    /\ pc = "evaluate"
    /\ std_in_bound' = is_std_in_bound(stds)[1]
    /\ problem_atoms' = is_std_in_bound(stds)[2]
    /\ pc' = "branch"
    /\ UNCHANGED <<config, curr_step, structure, training, log,
                   last_config, counters, all_out, all_calm,
                   aside>>

---------------------------------------------------------------------------
(* run(), lines 75-84: the prediction is not in bound *)

\* np.random.choice(atoms): one of the elements; an empty list raises
\* ValueError.
Choices(atoms) == {atoms[i] : i \in 1 .. Len(atoms)}

\* Lines 78-81: the values target_atom may get; none when np.random.choice
\* raises.
Targets ==
    IF Truthy(punchout_d) THEN Choices(problem_atoms) ELSE {None}

\* Mutant of Correct: the branch also runs line 88, curr_step += 1.
CorrectAdvancing ==
    /\ pc = "branch"
    /\ ~std_in_bound
    /\ Targets # {}
    /\ last_config' = ConfigRows
    /\ n_correct' = n_correct + 1
    /\ curr_step' = curr_step + 1
    /\ \E target_atom \in Targets :
          run_and_train(target_atom, Append(log, ConfigEntry("Correct")))
    /\ UNCHANGED <<config, structure, gp_db, qe_forces, locals,
                   n_update, n_train, n_predict, n_integrate,
                   all_out, all_calm, aside>>

\* Line 76, lines 78-81 and the call of line 83, every call returning.
Correct ==
    /\ pc = "branch"
    /\ ~std_in_bound
    /\ Targets # {}
    /\ last_config' = ConfigRows
    /\ n_correct' = n_correct + 1
    /\ \E target_atom \in Targets :
          run_and_train(target_atom, Append(log, ConfigEntry("Correct")))
    /\ UNCHANGED <<config, curr_step, structure, gp_db, qe_forces, locals,
                   n_update, n_train, n_predict, n_integrate,
                   all_out, all_calm, aside>>

\* Line 76, then np.random.choice raises ValueError on an empty list.
CorrectNoTarget ==
    /\ pc = "branch"
    /\ ~std_in_bound
    /\ Targets = {}
    /\ last_config' = ConfigRows
    /\ n_correct' = n_correct + 1
    /\ log' = Append(log, ConfigEntry("Correct"))
    /\ pc' = "aborted"
    /\ UNCHANGED <<config, curr_step, structure, training, locals,
                   n_oracle, n_update, n_train, n_predict, n_integrate,
                   all_out, all_calm,
                   aside>>

\* Line 76, lines 78-81, and punchout raises inside the call of line 83.
PunchoutFail ==
    /\ pc = "branch"
    /\ ~std_in_bound
    /\ last_config' = ConfigRows
    /\ n_correct' = n_correct + 1
    /\ \E target_atom \in Targets :
          run_and_train_raise(target_atom,
                              Append(log, ConfigEntry("Correct")))
    /\ UNCHANGED <<config, curr_step, structure, gp_db, qe_forces, locals,
                   n_update, n_train, n_predict, n_integrate,
                   all_out, all_calm, aside>>

---------------------------------------------------------------------------
(* run(), lines 86-88: the prediction is in bound *)

\* Mutant of NewPositions: `+ pre_pos` for `- pre_pos` in line 164.
NewPositionsSignSlip ==
    [a \in Atoms(nat) |->
        [j \in Comps |->
            2 * positions[a][j] + prev_positions[a][j]
              + ((dt * dt) * forces[a][j]) \div mass_dict(species(a))]]

\* OTF.update_positions, lines 156-167.
NewPositions ==
    [a \in Atoms(nat) |->
        [j \in Comps |->
            2 * positions[a][j] - prev_positions[a][j]
              + ((dt * dt) * forces[a][j]) \div mass_dict(species(a))]]

\* Mutant of update_positions: temp_pos is not a copy (line 158), so
\* prev_positions gets the new positions.
update_positions_aliased ==
    /\ positions' = NewPositions
    /\ prev_positions' = NewPositions

update_positions ==
    /\ positions' = NewPositions
    /\ prev_positions' = positions

\* Mutant of Integrate: write_config is called after update_positions, so
\* the record holds the advanced positions.
IntegrateLate ==
    /\ pc = "branch"
    /\ std_in_bound
    /\ update_positions
    /\ log' = Append(log, ConfigEntry("Integrate"))
    /\ last_config' = [ConfigRows EXCEPT !.positions = NewPositions]
    /\ curr_step' = curr_step + 1
    /\ n_integrate' = n_integrate + 1
    /\ pc' = "loop"
    /\ UNCHANGED <<config, forces, stds, training, locals,
                   n_oracle, n_update, n_train, n_predict, n_correct,
                   all_out, all_calm, aside>>

Integrate ==
    /\ pc = "branch"
    /\ std_in_bound
    /\ log' = Append(log, ConfigEntry("Integrate"))
    /\ last_config' = ConfigRows
    /\ update_positions
    /\ curr_step' = curr_step + 1
    /\ n_integrate' = n_integrate + 1
    /\ pc' = "loop"
    /\ UNCHANGED <<config, forces, stds, training, locals,
                   n_oracle, n_update, n_train, n_predict, n_correct,
                   all_out, all_calm,
                   aside>>

\* Line 69: the loop condition fails and run() returns.
Complete ==
    /\ pc = "loop"
    /\ ~LoopCondition
    /\ pc' = "done"
    /\ UNCHANGED <<config, curr_step, structure, training, log,
                   last_config, locals, counters, all_out, all_calm,
                   aside>>

---------------------------------------------------------------------------
(* Specifications *)

\* The steps of run() while every call to the oracle, the surrogate and
\* punchout returns.
Step ==
    \/ Bootstrap
    \/ OracleReturn
    \/ Predict
    \/ Evaluate
    \/ Correct
    \/ CorrectNoTarget
    \/ Integrate
    \/ Complete

\* A call to one of them raises.
Raise ==
    \/ OracleFail
    \/ PredictFail
    \/ PunchoutFail

Next == Step \/ Raise

Spec == Init /\ [][Next]_vars

\* Runs in which those calls all return.  run() is one sequential thread:
\* while it has a step to take it takes it.
FairSpec == Init /\ [][Step]_vars /\ WF_vars(Step)

\* is_std_in_bound on its own: applied once to every array of up to MaxAtoms
\* atoms with entries in StdVals.
StdInit ==
    /\ Nsteps = 1
    /\ punchout_d = None
    /\ nat \in 1 .. MaxAtoms
    /\ dt \in DtVals
    /\ curr_step = 0
    /\ positions = InitPositions(nat)
    /\ prev_positions = positions
    /\ forces = [a \in Atoms(nat) |-> Zero3]
    /\ stds \in [Atoms(nat) -> [Comps -> StdVals]]
    /\ train_structure = NoStructure
    /\ punchout_target = None
    /\ gp_db = EmptyDb
    /\ log = <<Entry("header")>>
    /\ last_config = NoRows
    /\ std_in_bound = FALSE
    /\ problem_atoms = <<>>
    /\ pc = "evaluate"
    /\ n_oracle = 0 /\ n_update = 0 /\ n_train = 0
    /\ n_predict = 0 /\ n_correct = 0 /\ n_integrate = 0
    /\ all_out = TRUE
    /\ all_calm = TRUE
    /\ qe_forces = "none"
    /\ NothingAside
    /\ n_moves = 0

StdSpec == StdInit /\ [][Evaluate]_vars

---------------------------------------------------------------------------
(* src/flare/md.py, and OTF.update_positions called on its own *)

\* The time steps, the forces on one atom and the displacements of the step
\* before that md.py is applied to: integers for which dt^2 * force / mass
\* and the division by 2 * dt are exact.
MdDts == {1, 2}
MdForces == {Zero3, <<4, 0, -4>>, <<-4, 4, 8>>}
MdDisplacements == {Zero3, <<4, 0, 0>>}

\* md.update_positions(dt, noa, structure), lines 7-17: a new array of noa
\* rows, the rows of the atoms of the structure filled in.
md_update_positions(d, noa, s) ==
    [a \in Atoms(noa) |->
        IF a \in DOMAIN s.prev_positions
        THEN [j \in Comps |->
                 2 * s.positions[a][j] - s.prev_positions[a][j]
                   + ((d * d) * s.forces[a][j]) \div mass_dict(species(a))]
        ELSE Zero3]

\* The sum of f[i] over the atoms 0 .. n-1 and the components 1 .. k.
RECURSIVE SumOver(_, _, _)
SumOver(f, n, k) ==
    IF n = 0 THEN 0
    ELSE IF k = 0 THEN SumOver(f, n - 1, Dim)
    ELSE f[n - 1][k] + SumOver(f, n, k - 1)

\* Mutant of md_velocities: the difference is divided by dt, not by 2 * dt.
md_velocities_one_sided(np, s, d) ==
    [a \in DOMAIN np |->
        [j \in Comps |-> (np[a][j] - s.prev_positions[a][j]) \div d]]

\* md.calculate_temperature, lines 22-23.
md_velocities(np, s, d) ==
    [a \in DOMAIN np |->
        [j \in Comps |-> (np[a][j] - s.prev_positions[a][j]) \div (2 * d)]]

\* md.calculate_temperature(new_pos, structure, dt, noa), lines 22-38.  KE2
\* is twice the kinetic energy; the temperature is KE2 / (dof * kb), kept as
\* its numerator and the degrees of freedom 3 * noa - 3 it is divided by.
calculate_temperature(np, s, d, noa) ==
    LET v == md_velocities(np, s, d)
    IN  [KE2 |-> SumOver([a \in DOMAIN s.positions |->
                            [j \in Comps |->
                                mass_dict(species(a)) * v[a][j] * v[a][j]]],
                         Cardinality(DOMAIN s.positions), Dim),
         dof |-> Dim * noa - Dim,
         velocities |-> v]

\* The structure as md.py reads it.
TheStructure ==
    [positions |-> positions, prev_positions |-> prev_positions,
     forces |-> forces]

MdInit ==
    /\ Nsteps = 0
    /\ punchout_d = None
    /\ nat \in 1 .. MaxAtoms
    /\ dt \in MdDts
    /\ curr_step = 0
    /\ positions = InitPositions(nat)
    /\ \E disp \in MdDisplacements :
          prev_positions =
              [a \in Atoms(nat) |->
                  [j \in Comps |-> positions[a][j] - disp[j]]]
    /\ forces \in [Atoms(nat) -> MdForces]
    /\ stds = [a \in Atoms(nat) |-> Zero3]
    /\ train_structure = NoStructure
    /\ punchout_target = None
    /\ gp_db = EmptyDb
    /\ log = <<Entry("header")>>
    /\ last_config = NoRows
    /\ std_in_bound = FALSE
    /\ problem_atoms = <<>>
    /\ pc = "md"
    /\ n_oracle = 0 /\ n_update = 0 /\ n_train = 0
    /\ n_predict = 0 /\ n_correct = 0 /\ n_integrate = 0
    /\ all_out = TRUE
    /\ all_calm = TRUE
    /\ qe_forces = "none"
    /\ NothingAside
    /\ n_moves = 0

\* OTF.update_positions() called on its own, up to MaxSteps times.
OTFUpdatePositions ==
    /\ pc = "md"
    /\ n_moves < MaxSteps
    /\ update_positions
    /\ n_moves' = n_moves + 1
    /\ UNCHANGED <<config, curr_step, forces, stds, training, log,
                   last_config, locals, pc, counters, all_out, all_calm,
                   md, parse>>

\* new_pos = md.update_positions(dt, nat, structure)
MdUpdatePositions ==
    /\ pc = "md"
    /\ new_pos' = md_update_positions(dt, nat, TheStructure)
    /\ UNCHANGED <<config, curr_step, structure, training, log,
                   last_config, locals, pc, counters, n_moves, all_out,
                   all_calm, kinetics, parse>>

\* md.calculate_temperature(new_pos, structure, dt, nat) on the array the
\* last call of md.update_positions returned.
MdTemperature ==
    /\ pc = "md"
    /\ new_pos # <<>>
    /\ kinetics' = calculate_temperature(new_pos, TheStructure, dt, nat)
    /\ UNCHANGED <<config, curr_step, structure, training, log,
                   last_config, locals, pc, counters, n_moves, all_out,
                   all_calm, new_pos, parse>>

MdNext == OTFUpdatePositions \/ MdUpdatePositions \/ MdTemperature

MdSpec == MdInit /\ [][MdNext]_vars

\* The runs of OTF together with the calls of md.py.
RunMdSpec == (Init \/ MdInit) /\ [][Next \/ MdNext]_vars

---------------------------------------------------------------------------
(* src/flare/dft_interface/pyscf_util.py: parse_dft_input *)

MaxLines == 3         \* lines of the input file: 0..MaxLines

\* What a line of the file holds: the start of the cell block, the start of
\* the positions block, the number of atoms, or something else.
LineKinds == {"cell", "positions", "nat", "other"}

Templates ==
    UNION {[1 .. n -> LineKinds] : n \in 0 .. MaxLines}

\* Lines 65-66: the loop over the lines assigns None to cell_index for every
\* line and reads none of them.
RECURSIVE cell_index_after(_, _)
cell_index_after(lines, i) ==
    IF i = 0 THEN None
    ELSE IF cell_index_after(lines, i - 1) = None THEN None ELSE None

\* parse_dft_input(dft_input), lines 54-70, on a file with these lines: the
\* item named by the first assert statement that fails, and "returned" when
\* none does (the function has no return statement).  With assert
\* statements compiled out (python -O) none is executed.
parse_dft_input(lines, asserting) ==
    LET cell_index == cell_index_after(lines, Len(lines))
        positions_index == None
        nat_found == None
    IN  IF ~asserting THEN "returned"
        ELSE IF cell_index = None THEN "cell"
        ELSE IF positions_index = None THEN "positions"
        ELSE IF nat_found = None THEN "nat"
        ELSE "returned"

ParseInit ==
    /\ Nsteps = 0
    /\ punchout_d = None
    /\ nat = 1
    /\ dt \in DtVals
    /\ curr_step = 0
    /\ positions = InitPositions(nat)
    /\ prev_positions = positions
    /\ forces = [a \in Atoms(nat) |-> Zero3]
    /\ stds = [a \in Atoms(nat) |-> Zero3]
    /\ train_structure = NoStructure
    /\ punchout_target = None
    /\ gp_db = EmptyDb
    /\ log = <<Entry("header")>>
    /\ last_config = NoRows
    /\ std_in_bound = FALSE
    /\ problem_atoms = <<>>
    /\ pc = "parse"
    /\ n_oracle = 0 /\ n_update = 0 /\ n_train = 0
    /\ n_predict = 0 /\ n_correct = 0 /\ n_integrate = 0
    /\ n_moves = 0
    /\ all_out = TRUE
    /\ all_calm = TRUE
    /\ qe_forces = "none"
    /\ new_pos = <<>>
    /\ kinetics = NoKinetics
    /\ template \in Templates
    /\ assertions \in BOOLEAN
    /\ parse_result = "not called"

ParseDftInput ==
    /\ pc = "parse"
    /\ parse_result = "not called"
    /\ parse_result' = parse_dft_input(template, assertions)
    /\ UNCHANGED <<config, curr_step, structure, training, log,
                   last_config, locals, pc, counters, all_out, all_calm,
                   md, template, assertions, n_moves>>

ParseSpec == ParseInit /\ [][ParseDftInput]_vars

---------------------------------------------------------------------------
(* What the claims speak of *)

\* Every entry is a number strictly below the threshold.
AllBelow(s) ==
    \A a \in DOMAIN s : \A j \in Comps : LT(s[a][j], Threshold)

\* Some entry is not a number.
HasNaN(s) == \E a \in DOMAIN s : \E j \in Comps : IsNaN(s[a][j])

\* The atoms with a component that is a number at or above the threshold.
OutAtoms(s) == {a \in DOMAIN s : \E j \in Comps : GE(s[a][j], Threshold)}

\* The atoms with a component that is not a number.
NaNAtoms(s) == {a \in DOMAIN s : \E j \in Comps : IsNaN(s[a][j])}

\* `seq` lists exactly the elements of S, each once, in ascending order.
ListsAscending(seq, S) ==
    /\ Choices(seq) = S
    /\ \A i \in 1 .. Len(seq) : \A k \in 1 .. Len(seq) :
           i < k => seq[i] < seq[k]

\* The step records of the output file, in order.
Records == SelectSeq(log, LAMBDA e : e.type = "config")

\* The step taken is one of a Correct transition: its first half, up to the
\* call of the oracle, or its second half, from the oracle's return.
InCorrect ==
    \/ n_correct' # n_correct
    \/ pc = "oracle" /\ n_correct > 0

\* The step taken is the Integrate transition.
InIntegrate == n_integrate' # n_integrate

\* run_and_train has been entered from the not-in-bound branch and has gone
\* past its choice of the structure.
CorrectChoseStructure ==
    /\ pc \in {"oracle", "aborted"}
    /\ n_correct > 0
    /\ log[Len(log)].type = "calling_qe"

---------------------------------------------------------------------------
(* C1 *)

\* C1 as stated: positions advance only on a prediction whose stds are all
\* strictly below the threshold.
C1_IntegrateOnlyBelowThreshold ==
    [][InIntegrate => AllBelow(stds)]_vars

---------------------------------------------------------------------------
(* C2 *)

\* C2 as stated: before the first predict (and when run() returns without
\* one) exactly one oracle query was made, on the full structure, then one
\* training-set update and then one retrain, punch-out enabled or not.
C2_BootstrapOnFullStructure ==
    (n_predict = 0 /\ pc \in {"loop", "done"}) =>
        /\ n_oracle = 1 /\ n_update = 1 /\ n_train = 1
        /\ gp_db.size = 1 /\ gp_db.trained = 1
        /\ train_structure.kind = "full"
        /\ gp_db.structure = train_structure

\* C2 amended: the structure of that one query is the full structure when
\* punchout_d is None, and otherwise the sub-structure punched out around
\* an atom drawn among 0 .. nat-1; the update is made with that structure
\* and the retrain sees it; nothing is updated or trained before the oracle
\* returns.
C2_Bootstrap ==
    /\ (n_predict = 0 /\ pc \in {"loop", "done"}) =>
          /\ n_oracle = 1 /\ n_update = 1 /\ n_train = 1
          /\ gp_db.size = 1 /\ gp_db.trained = 1
          /\ gp_db.structure = train_structure
          /\ IF punchout_d = None
             THEN train_structure = [kind |-> "full", target |-> None]
             ELSE /\ train_structure.kind = "punchout"
                  /\ train_structure.target \in Atoms(nat)
    /\ (n_predict = 0 /\ pc \in {"bootstrap", "oracle", "aborted"}) =>
          n_update = 0 /\ n_train = 0 /\ gp_db = EmptyDb
    /\ n_predict > 0 => n_train >= 1

C2_Witness ==
    /\ n_predict = 0 /\ pc = "loop" /\ Nsteps > 0
    /\ punchout_d = 0
    /\ train_structure.kind = "punchout"

---------------------------------------------------------------------------
(* C3 *)

\* C3: no step of a Correct transition changes curr_step, positions or
\* prev_positions, and step records written by Correct with no Integrate
\* record between them carry the same frame counter.
C3_CorrectKeepsClock ==
    /\ [][InCorrect => UNCHANGED <<curr_step, positions, prev_positions>>]_vars
    /\ [](\A i \in 1 .. Len(Records) : \A k \in 1 .. Len(Records) :
            (/\ i < k
             /\ \A m \in i .. k : Records[m].by = "Correct")
                => Records[i].frame = Records[k].frame)

C3_Witness ==
    /\ pc = "loop"
    /\ n_integrate = 1
    /\ prev_positions # positions
    /\ Len(Records) = 3
    /\ Records[2].by = "Correct" /\ Records[3].by = "Correct"
    /\ Records[3].frame = 1

---------------------------------------------------------------------------
(* C4 *)

\* C4: curr_step stays within 0 .. number_of_steps, never decreases, and
\* changes only by +1, in the Integrate transition and in each of them.
C4_StepCounter ==
    /\ [](curr_step \in 0 .. Nsteps /\ curr_step = n_integrate)
    /\ [][/\ curr_step' # curr_step => curr_step' = curr_step + 1
          /\ curr_step' # curr_step <=> InIntegrate]_vars

C4_Witness ==
    /\ pc = "done"
    /\ Nsteps = MaxSteps
    /\ curr_step = Nsteps
    /\ n_correct > 0

---------------------------------------------------------------------------
(* C5 *)

\* C5 as stated, for the runs in which every correction is followed by an
\* accepted prediction and no call to the oracle or the surrogate raises:
\* run() does not stop before Complete, and in Complete curr_step is
\* number_of_steps, reached by as many Integrate transitions, the last of
\* which wrote the last entry of the output file.
C5_TerminatesInComplete ==
    \/ ENABLED Step
    \/ /\ pc = "done"
       /\ curr_step = Nsteps
       /\ n_integrate = Nsteps
       /\ Nsteps > 0 => log[Len(log)].by = "Integrate"

---------------------------------------------------------------------------
(* C6 *)

---------------------------------------------------------------------------
(* C7 *)

\* C7 as stated: the check returns (True, []) exactly when the maximum
\* entry of stds is strictly below the threshold.
C7_InBoundIffAllBelow ==
    pc = "branch" =>
        ((std_in_bound /\ problem_atoms = <<>>) <=> AllBelow(stds))

---------------------------------------------------------------------------
(* C8 *)

\* C8 as stated: with an entry at or above the threshold the check returns
\* False and lists, ascending and each once, exactly the atoms that have
\* such an entry.
C8_ProblemAtomsExact ==
    (pc = "branch" /\ SomeEntryOut(stds)) =>
        /\ ~std_in_bound
        /\ ListsAscending(problem_atoms, OutAtoms(stds))

---------------------------------------------------------------------------
(* C9 *)

\* C9 as stated: with an entry that is not a number the check returns False
\* and lists every atom holding such an entry.
C9_NaNOutOfBound ==
    (pc = "branch" /\ HasNaN(stds)) =>
        /\ ~std_in_bound
        /\ NaNAtoms(stds) \subseteq Choices(problem_atoms)

---------------------------------------------------------------------------
(* C10 *)

\* C10 as stated: with punchout_d not None, every Correct transition hands
\* punchout a target among the problem atoms, and the first oracle call one
\* among all atoms; with punchout_d None the oracle gets the full structure.
C10_TargetAmongProblemAtoms ==
    /\ (CorrectChoseStructure /\ punchout_d # None) =>
          punchout_target \in Choices(problem_atoms)
    /\ punchout_d # None =>
          ~(pc = "aborted" /\ log[Len(log)].by = "Correct")
    /\ (pc = "oracle" /\ n_oracle = 1 /\ punchout_d # None) =>
          /\ train_structure.kind = "punchout"
          /\ train_structure.target \in Atoms(nat)
    /\ (pc = "oracle" /\ punchout_d = None) =>
          train_structure = [kind |-> "full", target |-> None]

---------------------------------------------------------------------------
(* C11 *)

\* The step records written by the branch `by`.
RecordsBy(by) == SelectSeq(Records, LAMBDA e : e.by = by)

\* C11: the output file holds one step record for each pass through the
\* not-in-bound branch and one for each Integrate, and no other; none is
\* written before the first prediction.  A record of Correct stands right
\* before the announcement of its oracle call, and the record of Integrate
\* holds the positions as they were before the update.
C11_OneRecordPerTransition ==
    /\ [](/\ Len(RecordsBy("Correct")) = n_correct
          /\ Len(RecordsBy("Integrate")) = n_integrate
          /\ Len(Records) = n_correct + n_integrate
          /\ n_predict = 0 => Records = <<>>
          /\ pc \in {"loop", "done"} => Len(Records) = n_predict
          /\ \A i \in 3 .. Len(log) :
                log[i].type = "calling_qe"
                    => log[i - 1].type = "config" /\ log[i - 1].by = "Correct")
    /\ [][InIntegrate =>
            /\ log' = Append(log, log'[Len(log')])
            /\ log'[Len(log')].by = "Integrate"
            /\ last_config'.positions = positions
            /\ last_config'.positions = prev_positions']_vars

C11_Witness ==
    /\ pc = "done"
    /\ n_correct > 0
    /\ n_integrate = MaxSteps
    /\ last_config.positions # positions

---------------------------------------------------------------------------
(* C12 *)

\* run_espresso was called and raised: the call was counted, no update
\* followed, and run() is over.
OracleFailed == pc = "aborted" /\ n_oracle = n_update + 1

\* C12: after run_espresso raised nothing happens any more (no update, no
\* retrain, no prediction, no Integrate, no further oracle call); the step
\* in which it raised leaves curr_step, the positions and the training set
\* as they were; and wherever run() has gone past an oracle call, the
\* update and the retrain of that call were made.
C12_OracleFailureAborts ==
    /\ [][~OracleFailed]_vars
    /\ [][(~OracleFailed /\ OracleFailed') =>
            UNCHANGED <<curr_step, positions, prev_positions, gp_db,
                        counters>>]_vars
    /\ [](pc \notin {"oracle", "aborted"} =>
            n_oracle = n_update /\ n_update = n_train)

C12_Witness ==
    /\ OracleFailed
    /\ n_correct > 0
    /\ curr_step > 0
    /\ gp_db.size = n_update

---------------------------------------------------------------------------
(* C13 *)

\* gp.predict raised: a prediction was counted that no branch followed.
PredictFailed == pc = "aborted" /\ n_predict = n_correct + n_integrate + 1

\* The index of the last step record of the output file; of the header when
\* there is none.
RECURSIVE LastRecord(_)
LastRecord(i) ==
    IF i = 1 \/ log[i].type = "config" THEN i ELSE LastRecord(i - 1)

\* The types of the entries after it.
LogTail ==
    [i \in 1 .. (Len(log) - LastRecord(Len(log))) |->
        log[LastRecord(Len(log)) + i].type]

QEBlock == <<"calling_qe", "done", "qe_results", "updating", "hyperparameters">>

\* C13 as stated: when the oracle or the surrogate has raised, nothing
\* stands in the output file after the last step record.
C13_LogEndsAtRecord ==
    (OracleFailed \/ PredictFailed) => LogTail = <<>>

\* C13, amended: when the oracle has raised, the last step record (the
\* header when there is none) is followed by the announcement 'Calling QE...'
\* and nothing else; when the surrogate has raised, it is followed by nothing
\* or by the whole block of messages of the oracle call before.
C13_LogTailOnFailure ==
    /\ OracleFailed => LogTail = <<"calling_qe">>
    /\ PredictFailed => LogTail \in {<<>>, QEBlock}
    /\ pc = "aborted" => LogTail \in {<<>>, <<"calling_qe">>, QEBlock}

C13_Witness ==
    /\ OracleFailed
    /\ Len(Records) > 1
    /\ log[Len(log) - 1].by = "Correct"
    /\ log[Len(log)].type = "calling_qe"

---------------------------------------------------------------------------
(* C14 *)

\* The step taken is a call of OTF.update_positions.
InUpdatePositions == InIntegrate \/ n_moves' # n_moves

\* `new` is 2p - q + dt^2 * f / m for atom a, with the structure's p
\* (positions), q (prev_positions) and f (forces) and the mass m of a.
IsVerletStep(new, a) ==
    \A j \in Comps :
        mass_dict(species(a)) * new[j] =
            mass_dict(species(a)) * (2 * positions[a][j] - prev_positions[a][j])
              + dt * dt * forces[a][j]

\* C14: OTF.update_positions sets the position of every atom to
\* 2p - q + dt^2 * f / m and its previous position to p, and leaves forces,
\* stds, the number of atoms and dt as they are; md.update_positions
\* returns the same positions for the same structure and changes nothing
\* of the structure.
C14_UpdatePositions ==
    /\ [][InUpdatePositions =>
            /\ DOMAIN positions' = Atoms(nat)
            /\ \A a \in Atoms(nat) : IsVerletStep(positions'[a], a)
            /\ prev_positions' = positions
            /\ positions' = md_update_positions(dt, nat, TheStructure)
            /\ UNCHANGED <<forces, stds, nat, dt>>]_vars
    /\ [][new_pos' # new_pos =>
            /\ DOMAIN new_pos' = Atoms(nat)
            /\ \A a \in Atoms(nat) : IsVerletStep(new_pos'[a], a)
            /\ UNCHANGED <<structure, nat, dt>>]_vars

C14_Witness ==
    /\ n_moves = 1
    /\ nat = MaxAtoms
    /\ dt = 2
    /\ new_pos = positions
    /\ positions # prev_positions
    /\ prev_positions = InitPositions(nat)

---------------------------------------------------------------------------
(* C15 *)

ZeroForces == \A a \in Atoms(nat) : forces[a] = Zero3
AtRest == prev_positions = positions

\* C15: with zero forces and prev_positions equal to positions, a call of
\* OTF.update_positions (in Integrate or on its own) changes neither, and
\* md.update_positions returns the positions, with any dt; so the positions
\* stay the initial ones over any number of calls.  In a run started at rest
\* in which every prediction was zero force with std 0, no correction is made
\* after the bootstrap, the positions stay the initial ones, and run()
\* returns after number_of_steps Integrate transitions.
C15_FixedPoint ==
    /\ [][(ZeroForces /\ AtRest /\ InUpdatePositions) =>
            UNCHANGED <<positions, prev_positions>>]_vars
    /\ [][(ZeroForces /\ AtRest /\ new_pos' # new_pos) =>
            new_pos' = positions]_vars
    /\ []((pc = "md" /\ ZeroForces /\ AtRest) =>
            positions = InitPositions(nat))
    /\ []((pc # "md" /\ all_calm /\ AtRest) =>
            /\ positions = InitPositions(nat)
            /\ n_correct = 0
            /\ n_oracle <= 1
            /\ n_integrate = curr_step
            /\ pc = "done" => n_integrate = Nsteps)

C15_Witness ==
    /\ pc = "done"
    /\ all_calm
    /\ AtRest
    /\ Nsteps = MaxSteps
    /\ n_integrate = MaxSteps
    /\ n_predict = MaxSteps
    /\ positions = InitPositions(nat)

---------------------------------------------------------------------------
(* C16 *)

\* One atom at rest, dt = 1, and calculate_temperature was applied to what
\* md.update_positions returned for it.
OneAtomFromRest ==
    /\ pc = "md"
    /\ nat = 1
    /\ dt = 1
    /\ n_moves = 0
    /\ AtRest
    /\ kinetics # NoKinetics

\* C16 as stated: for one atom at rest under the force F, with dt = 1, the
\* velocity that calculate_temperature computes from one update_positions
\* is F / m in every component.
C16_VelocityIsFOverM ==
    OneAtomFromRest =>
        \A j \in Comps :
            mass_dict(species(0)) * kinetics.velocities[0][j] = forces[0][j]

\* C16, amended: that velocity is F / (2m) in every component; for any
\* number of atoms at rest and any dt it is dt * F / (2m).
C16_VelocityIsHalfFOverM ==
    (pc = "md" /\ n_moves = 0 /\ AtRest /\ kinetics # NoKinetics) =>
        \A a \in Atoms(nat) : \A j \in Comps :
            2 * mass_dict(species(a)) * kinetics.velocities[a][j]
                = dt * forces[a][j]

C16_Witness ==
    /\ OneAtomFromRest
    /\ forces[0] = <<-4, 4, 8>>
    /\ kinetics.velocities[0] = <<-1, 1, 2>>
    /\ kinetics.dof = 0

---------------------------------------------------------------------------
(* C17 *)

\* The items that no line of the file holds.
Missing ==
    {"cell", "positions", "nat"} \ {template[i] : i \in 1 .. Len(template)}

\* C17 as stated: parse_dft_input fails exactly on the files in which the
\* cell block, the positions block or the number of atoms is missing, and
\* the diagnostic it fails with names an item that is missing; on a file
\* with all three it does not fail.
C17_DiagnosticPerMissingItem ==
    parse_result # "not called" =>
        IF Missing = {} THEN parse_result = "returned"
        ELSE parse_result \in Missing

---------------------------------------------------------------------------
(* C18 *)

\* C18: the return of an oracle call is followed at once by one update of
\* the training set with the structure that was submitted and the forces
\* that were returned, and by one retrain on the updated set; so wherever
\* run() predicts, evaluates, branches or returns, the oracle calls, the
\* updates and the retrains made are equally many, one more than the
\* corrections, and the surrogate is trained on the whole training set.
\* At most one oracle call is made and not yet returned.
C18_UpdateAndRetrainPerOracleCall ==
    /\ [](/\ n_oracle - n_update \in {0, 1}
          /\ n_oracle > n_update => pc \in {"oracle", "aborted"})
    /\ [](pc \in {"loop", "evaluate", "branch", "done"} =>
            /\ n_oracle = n_update /\ n_update = n_train
            /\ n_oracle = 1 + n_correct
            /\ gp_db.size = n_update
            /\ gp_db.trained = gp_db.size
            /\ gp_db.structure = train_structure
            /\ gp_db.forces = qe_forces)
    /\ [][(pc = "oracle" /\ pc' # "aborted") =>
            /\ pc' = "loop"
            /\ n_update' = n_update + 1
            /\ n_train' = n_train + 1
            /\ gp_db'.size = gp_db.size + 1
            /\ gp_db'.structure = train_structure
            /\ gp_db'.forces = qe_forces' /\ qe_forces' \in QEForces
            /\ gp_db'.trained = gp_db'.size
            /\ UNCHANGED n_oracle]_vars
    /\ [][(n_predict' # n_predict \/ InIntegrate) =>
            n_oracle = n_update /\ n_update = n_train]_vars

C18_Witness ==
    /\ pc = "evaluate"
    /\ n_correct = MaxCorrections
    /\ n_oracle = MaxCorrections + 1
    /\ gp_db.size = n_oracle
    /\ train_structure.kind = "punchout"
    /\ curr_step > 0

---------------------------------------------------------------------------
(* C19 *)

\* C19 as stated: whenever is_std_in_bound has returned False, the list of
\* problem atoms it returned is not empty.
C19_ProblemAtomsNonEmpty ==
    (pc = "branch" /\ ~std_in_bound) => problem_atoms # <<>>

---------------------------------------------------------------------------
(* C20 *)

\* Every step record has the frame counter of a step of the loop, the
\* frame counters do not decrease along the file, and the records of
\* Integrate carry 0, 1, .. curr_step - 1 in this order, each once: all of
\* 0 .. number_of_steps - 1 when run() has returned.
FramesInOrder ==
    /\ \A i \in 1 .. Len(Records) :
          Records[i].frame \in 0 .. curr_step /\ Records[i].frame < Nsteps
    /\ \A i \in 1 .. Len(Records) : \A k \in 1 .. Len(Records) :
          i < k => Records[i].frame <= Records[k].frame
    /\ Len(RecordsBy("Integrate")) = curr_step
    /\ \A i \in 1 .. curr_step : RecordsBy("Integrate")[i].frame = i - 1
    /\ pc = "done" => Len(RecordsBy("Integrate")) = Nsteps

\* C20 as stated, for the frame header: the frame counters are as above and
\* the time of every record is dt * curr_step.
C20_TimeIsDtTimesStep ==
    /\ FramesInOrder
    /\ \A i \in 1 .. Len(Records) :
          Records[i].time = dt * Records[i].frame

\* C20, amended: the frame counters are as above; the time of every record
\* is dt * curr_step rounded to six decimals; a record is written in the
\* branch after a prediction, with the counter, the positions, the forces
\* and the stds of the state it is written in, and nothing changes the
\* positions between the prediction and the record; the positions after the
\* last Integrate are in no record.
C20_RecordsCarryState ==
    /\ [](/\ FramesInOrder
          /\ \A i \in 1 .. Len(Records) :
                Records[i].time = np_round6(dt * Records[i].frame)
          /\ (pc = "done" /\ Nsteps > 0) =>
                last_config.positions = prev_positions)
    /\ [][Len(Records') # Len(Records) =>
            /\ pc = "branch"
            /\ Records' = Append(Records, Records'[Len(Records')])
            /\ Records'[Len(Records')].frame = curr_step
            /\ last_config' = [positions |-> positions,
                               forces |-> forces, stds |-> stds]]_vars
    /\ [][(pc = "evaluate" \/ (pc = "branch" /\ ~InIntegrate)) =>
            UNCHANGED <<positions, forces, stds>>]_vars

C20_Witness ==
    /\ pc = "done"
    /\ Nsteps = MaxSteps
    /\ n_correct > 0
    /\ last_config.positions # positions
    /\ \E i \in 1 .. Len(Records) :
          Records[i].time # dt * Records[i].frame

=============================================================================
